---- MODULE Spec2Model ----
(***************************************************************************)
(* antihash: collision search against polynomial rolling hashes.           *)
(*                                                                         *)
(* Strings and alphabet words are sequences of codepoints ('a' = 97).      *)
(* Positions inside cluster lists, heap entries and tree indices keep the  *)
(* 0-based numbering of the Rust source; a cluster list itself is a TLA+   *)
(* sequence, so the entry at source position q is list[q + 1].             *)
(***************************************************************************)
EXTENDS Integers, Sequences, FiniteSets, TLC

VARIABLES
    backend,        \* "birthday" | "tree" | "overflow": the sub-command of main
    params,         \* <<B_1, M_1>>, ..., <<B_k, M_k>>: bases zipped with modules
    cluster_size,   \* tree: -c
    init_alphabet,  \* the alphabet handed to find_collision
    alphabet,       \* find_collision: let mut alphabet
    round,          \* find_collision: 1-based position in the zip iterator
    pc,             \* where control is
    result,         \* what find_collision returned
    calls,          \* history: one entry per backend call that returned
    p,              \* find_single_collision (tree): the attempt, len = 2^p
    tree,           \* TreeAttack.tree
    phase,          \* try_attack: the argument of run_phase
    node,           \* run_phase: the loop variable i
    merged,         \* history: the trace of the last merge run_phase did
    trial_len,      \* birthday find_single_collision: len
    count,          \* birthday: iterations done of `for _ in 0..bound`
    samples,        \* birthday: the HashMap, as a set of [hash, word] entries
    length,         \* overflow: the value of --length
    tbase,          \* overflow test: base, eight little-endian bytes
    tpos,           \* overflow test: characters hashed so far
    h1,             \* overflow test: h1, eight little-endian bytes
    h2,             \* overflow test: h2
    init_i,         \* init_attack in exact i128: positions still to build (i + 1)
    init_pot,       \* init_attack in exact i128: pot
    init_wrapped    \* init_attack in exact i128: an operation has wrapped around

vars == <<backend, params, cluster_size, init_alphabet, alphabet, round, pc,
          result, calls, p, tree, phase, node, merged, trial_len, count,
          samples, length, tbase, tpos, h1, h2, init_i, init_pot, init_wrapped>>

lifter_vars == <<params, cluster_size, init_alphabet, alphabet, round, calls>>
tree_vars == <<p, tree, phase, node, merged>>
birthday_vars == <<trial_len, count, samples>>
overflow_vars == <<length, tbase, tpos, h1, h2>>
init_vars == <<init_i, init_pot, init_wrapped>>

(***************************************************************************)
(* Bounds of the model.                                                    *)
(***************************************************************************)
\* tree: the attempts p explored are PStart .. Min(PEnd - 1, AttemptCap)
AttemptCap == 4
\* birthday: the trial lengths explored are LenStart .. Min(LenEnd - 1, TrialLenCap)
TrialLenCap == 7
\* the first RandFree draws of a thread_rng in one string vary freely,
\* the later ones return index 0
RandFree == 1

(***************************************************************************)
(* Program constants.                                                      *)
(***************************************************************************)
PStart == 3
PEnd == 12
LenStart == 6
LenEnd == 64

Min(a, b) == IF a <= b THEN a ELSE b
Abs(a) == IF a >= 0 THEN a ELSE -a

\* Rust's % on signed integers: the remainder takes the sign of the dividend.
Rem(a, m) == IF a >= 0 THEN a % m ELSE -((-a) % m)

RECURSIVE Pow2(_)
Pow2(k) == IF k = 0 THEN 1 ELSE 2 * Pow2(k - 1)

RECURSIVE Flatten(_)
Flatten(ws) == IF ws = <<>> THEN <<>> ELSE ws[1] \o Flatten(Tail(ws))

(***************************************************************************)
(* tree_attack.rs: nodes                                                   *)
(***************************************************************************)
new_internal(sum, idx, rev_left, rev_right, pos_left, pos_right) ==
    [kind |-> "Internal", sum |-> sum, idx |-> idx,
     rev_left |-> rev_left, rev_right |-> rev_right,
     pos_left |-> pos_left, pos_right |-> pos_right]

\* the loop of new_leaf over the zipped characters lo..hi, entered with `hash`
\* (evaluated by halves of the range: the operations and their order are the
\* loop's)
RECURSIVE leaf_hash(_, _, _, _, _, _, _)
leaf_hash(hash, word1, word2, base, module, lo, hi) ==
    IF hi < lo THEN hash
    ELSE IF hi = lo
    THEN Rem((hash * base) + word1[hi] - word2[hi] + module, module)
    ELSE LET mid == (lo + hi) \div 2
             left == leaf_hash(hash, word1, word2, base, module, lo, mid)
         IN  IF left = left
             THEN leaf_hash(left, word1, word2, base, module, mid + 1, hi)
             ELSE 0

new_leaf(idx, word1, word2, base, module, pot) ==
    [kind |-> "Leaf",
     sum |-> Rem(leaf_hash(0, word1, word2, base, module,
                           1, Min(Len(word1), Len(word2))) * pot, module),
     idx |-> idx, word1 |-> word1, word2 |-> word2]

get_sum(n) == n.sum

(***************************************************************************)
(* tree_attack.rs: init_attack                                             *)
(***************************************************************************)
\* sort_unstable_by_key(|k| k.get_sum()) on one cluster list.  The order of
\* entries with equal keys is not fixed by the API; the insertion sort the
\* standard library runs on slices this short keeps their order, as here.
RECURSIVE sort_nodes(_)
sort_nodes(s) ==
    IF s = <<>> THEN <<>>
    ELSE LET x == s[Len(s)]
             d == sort_nodes(SubSeq(s, 1, Len(s) - 1))
             k == Cardinality({j \in 1..Len(d) : get_sum(d[j]) <= get_sum(x)})
         IN  SubSeq(d, 1, k) \o <<x>> \o SubSeq(d, k + 1, Len(d))

\* mutant: the dedup() of line 121 left out
dedup_omitted(s) == s

\* Vec::dedup with PartialEq on get_sum: drops an entry equal to the one kept
\* before it.
RECURSIVE dedup(_)
dedup(s) ==
    IF Len(s) <= 1 THEN s
    ELSE LET d == dedup(SubSeq(s, 1, Len(s) - 1))
         IN  IF get_sum(d[Len(d)]) = get_sum(s[Len(s)]) THEN d
             ELSE Append(d, s[Len(s)])

\* `pot = pot * self.base % self.module`, k times (evaluated by halves of k)
RECURSIVE pot_steps(_, _, _, _)
pot_steps(pot, k, base, module) ==
    IF k = 0 THEN pot
    ELSE IF k = 1 THEN Rem(pot * base, module)
    ELSE LET half == pot_steps(pot, k \div 2, base, module)
         IN  IF half = half THEN pot_steps(half, k - (k \div 2), base, module) ELSE 0

\* the value of pot when the leaves of position i are built: the inner loop
\* of lines 122-124 has run word_len times for each of the positions after i
pot_at(i, len, word_len, base, module) ==
    pot_steps(1, (len - 1 - i) * word_len, base, module)

\* the leaves pushed for position i, in push order (a outer, b inner, a != b)
leaf_pushes(i, alph, base, module, pot) ==
    LET n == Len(alph)
        all == [q \in 1..(n * n) |-> <<(q - 1) \div n, (q - 1) % n>>]
        ab == SelectSeq(all, LAMBDA q : q[1] # q[2])
    IN  [q \in 1..Len(ab) |->
            new_leaf(i, alph[ab[q][1] + 1], alph[ab[q][2] + 1], base, module, pot)]

init_attack(t, len, alph, base, module) ==
    [x \in 0..(2 * len - 1) |->
        IF x < len THEN <<>>
        ELSE LET i == x - len
                 old == IF x \in DOMAIN t THEN t[x] ELSE <<>>
                 pot == pot_at(i, len, Len(alph[1]), base, module)
             IN  dedup(sort_nodes(old \o leaf_pushes(i, alph, base, module, pot)))]

(***************************************************************************)
(* tree_attack.rs: run_phase                                               *)
(***************************************************************************)
calc_sum(t, l, r, pl, pr) == get_sum(t[l][pl + 1]) + get_sum(t[r][pr + 1])

calc_diff(t, l, r, pl, pr) == Abs(get_sum(t[l][pl + 1]) - get_sum(t[r][pr + 1]))

\* sort_unstable_by_key(|c| c[0].get_sum()) on the slice tree[2z..4z], given
\* as a sequence of cluster lists; ties keep their order (see sort_nodes).
RECURSIVE sort_clusters(_)
sort_clusters(cs) ==
    IF cs = <<>> THEN <<>>
    ELSE LET x == cs[Len(cs)]
             d == sort_clusters(SubSeq(cs, 1, Len(cs) - 1))
             k == Cardinality({j \in 1..Len(d) : get_sum(d[j][1]) <= get_sum(x[1])})
         IN  SubSeq(d, 1, k) \o <<x>> \o SubSeq(d, k + 1, Len(d))

\* the key closure indexes c[0]: an empty cluster list in the slice aborts
sort_panics(t, z) == \E x \in (2 * z)..(4 * z - 1) : t[x] = <<>>

sort_phase(t, z) ==
    LET sorted == sort_clusters([q \in 1..(2 * z) |-> t[2 * z + q - 1]])
    IN  [x \in DOMAIN t |->
            IF x >= 2 * z /\ x < 4 * z THEN sorted[x - 2 * z + 1] ELSE t[x]]

\* (i128, usize, usize, bool) under MinComparator: the derived tuple order
tuple_less(a, b) ==
    \/ a[1] < b[1]
    \/ a[1] = b[1] /\ a[2] < b[2]
    \/ a[1] = b[1] /\ a[2] = b[2] /\ a[3] < b[3]
    \/ a[1] = b[1] /\ a[2] = b[2] /\ a[3] = b[3] /\ ~a[4] /\ b[4]

\* the heap is kept as the sequence of its entries; pop takes a least one
heap_min(heap) ==
    CHOOSE q \in 1..Len(heap) :
        \A u \in 1..Len(heap) : ~tuple_less(heap[u], heap[q])

heap_remove(heap, q) == SubSeq(heap, 1, q - 1) \o SubSeq(heap, q + 1, Len(heap))

\* mutant: the pointer of lines 145-149 never advances
advance_pr_stuck(t, l, r, pl, pr) == pr

\* the while loop of lines 145-149
RECURSIVE advance_pr(_, _, _, _, _)
advance_pr(t, l, r, pl, pr) ==
    IF pr + 1 < Len(t[r]) /\ calc_diff(t, l, r, pl, pr + 1) < calc_diff(t, l, r, pl, pr)
    THEN advance_pr(t, l, r, pl, pr + 1)
    ELSE pr

\* the for loop of lines 144-153: the difference-stream entries pushed, in order
RECURSIVE seed_diffs(_, _, _, _, _)
seed_diffs(t, l, r, pl, pr) ==
    IF pl >= Len(t[l]) THEN <<>>
    ELSE LET q == advance_pr(t, l, r, pl, pr)
         IN  <<<<calc_diff(t, l, r, pl, q), pl, q, FALSE>>>>
                 \o seed_diffs(t, l, r, pl + 1, q)

\* calc_diff / calc_sum index tree[l][pl] and tree[r][0]
merge_panics(t, l, r) == t[l] = <<>> \/ t[r] = <<>>

\* the state of one merge before the while loop of line 159
merge_start(t, i) ==
    LET l == 2 * i
        r == 2 * i + 1
        seeds == seed_diffs(t, l, r, 0, 0)
    IN  [heap |-> Append(seeds, <<calc_sum(t, l, r, 0, 0), 0, 0, TRUE>>),
         added |-> {<<seeds[q][2], seeds[q][3], FALSE>> : q \in 1..Len(seeds)},
         out |-> t[i],
         last_sum |-> -1,
         found |-> FALSE,
         pops |-> <<>>,
         pushes |-> Append([q \in 1..Len(seeds) |->
                               <<seeds[q][2], seeds[q][3], FALSE>>],
                           <<0, 0, TRUE>>)]

\* mutant: the difference stream never steps to pr - 1
neighbours_right_only(t, l, r, pl, pr, b) ==
    IF b
    THEN (IF pl + 1 < Len(t[l]) THEN <<<<pl + 1, pr, TRUE>>>> ELSE <<>>)
         \o (IF pr + 1 < Len(t[r]) THEN <<<<pl, pr + 1, TRUE>>>> ELSE <<>>)
         \o (IF pl + 1 < Len(t[l]) /\ pr + 1 < Len(t[r])
             THEN <<<<pl + 1, pr + 1, TRUE>>>> ELSE <<>>)
    ELSE (IF pr + 1 < Len(t[r]) THEN <<<<pl, pr + 1, FALSE>>>> ELSE <<>>)

\* the neighbours a popped entry tries to add, in order
neighbours(t, l, r, pl, pr, b) ==
    IF b
    THEN (IF pl + 1 < Len(t[l]) THEN <<<<pl + 1, pr, TRUE>>>> ELSE <<>>)
         \o (IF pr + 1 < Len(t[r]) THEN <<<<pl, pr + 1, TRUE>>>> ELSE <<>>)
         \o (IF pl + 1 < Len(t[l]) /\ pr + 1 < Len(t[r])
             THEN <<<<pl + 1, pr + 1, TRUE>>>> ELSE <<>>)
    ELSE (IF pr > 0 THEN <<<<pl, pr - 1, FALSE>>>> ELSE <<>>)
         \o (IF pr + 1 < Len(t[r]) THEN <<<<pl, pr + 1, FALSE>>>> ELSE <<>>)

\* one iteration of the while loop that pops an entry (lines 160-202)
pop_step(t, i, st) ==
    LET l == 2 * i
        r == 2 * i + 1
        q == heap_min(st.heap)
        s == st.heap[q][1]
        pl == st.heap[q][2]
        pr == st.heap[q][3]
        b == st.heap[q][4]
        swap == get_sum(t[l][pl + 1]) > get_sum(t[r][pr + 1])
        ml == IF b THEN FALSE ELSE ~swap
        mr == IF b THEN FALSE ELSE swap
        fresh == SelectSeq(neighbours(t, l, r, pl, pr, b), LAMBDA c : c \notin st.added)
        entries == [c \in 1..Len(fresh) |->
                       <<IF b THEN calc_sum(t, l, r, fresh[c][1], fresh[c][2])
                              ELSE calc_diff(t, l, r, fresh[c][1], fresh[c][2]),
                         fresh[c][1], fresh[c][2], b>>]
    IN  [heap |-> heap_remove(st.heap, q) \o entries,
         added |-> st.added \cup {fresh[c] : c \in 1..Len(fresh)},
         out |-> IF s # st.last_sum
                 THEN Append(st.out, new_internal(s, i, ml, mr, pl, pr))
                 ELSE st.out,
         last_sum |-> s,
         found |-> (s = 0),
         pops |-> Append(st.pops, s),
         pushes |-> st.pushes \o fresh]

RECURSIVE merge_loop(_, _, _, _)
merge_loop(t, i, cap, st) ==
    IF Len(st.out) >= cap \/ st.heap = <<>> THEN st
    ELSE LET nx == pop_step(t, i, st)
         IN  IF nx.found THEN nx ELSE merge_loop(t, i, cap, nx)

\* the body of `for i in z..2 * z` for one i
merge(t, i, cap) == merge_loop(t, i, cap, merge_start(t, i))

(***************************************************************************)
(* tree_attack.rs: construct_solution                                      *)
(***************************************************************************)
\* the while loop over the queue; words[i] = <<>> stands for None.  The
\* queue is taken one tree level at a time: it is first-in first-out and the
\* tree is perfect, so `queue` holds the entries of one level, all internal
\* nodes or all leaves, in the order the loop removes them.
RECURSIVE walk(_, _, _)
walk(t, queue, words) ==
    IF queue = <<>> THEN words
    ELSE LET n(k) == t[queue[k][1]][queue[k][2] + 1]
             m(k) == queue[k][3]
         IN  IF n(1).kind = "Internal"
             THEN walk(t,
                       Flatten([k \in 1..Len(queue) |->
                           <<<<2 * n(k).idx, n(k).pos_left, m(k) # n(k).rev_left>>,
                             <<2 * n(k).idx + 1, n(k).pos_right, m(k) # n(k).rev_right>>>>]),
                       words)
             ELSE [i \in DOMAIN words |->
                      IF \E k \in 1..Len(queue) : n(k).idx = i
                      THEN LET k == CHOOSE k \in 1..Len(queue) :
                                        /\ n(k).idx = i
                                        /\ \A j \in (k + 1)..Len(queue) : n(j).idx # i
                           IN  IF ~m(k) THEN <<n(k).word1, n(k).word2>>
                               ELSE <<n(k).word2, n(k).word1>>
                      ELSE words[i]]

solution_words(t, len, idx) ==
    walk(t, <<<<idx, 0, FALSE>>>>, [i \in 0..(len - 1) |-> <<>>])

\* the positions the walk left None, ascending: one gen_range draw each
RECURSIVE untouched(_, _, _)
untouched(words, i, len) ==
    IF i >= len THEN <<>>
    ELSE (IF words[i] = <<>> THEN <<i>> ELSE <<>>) \o untouched(words, i + 1, len)

\* the sequences of n draws of gen_range(0, k) that the model explores
Draws(n, k) ==
    {[q \in 1..n |-> IF q <= RandFree THEN f[q] ELSE 0] :
        f \in [1..Min(n, RandFree) -> 0..(k - 1)]}

\* mutant: an untouched position gets one draw for fi and another for se
construct_solution_two_draws(t, len, idx, alph, draws) ==
    LET words == walk(t, <<<<idx, 0, FALSE>>>>, [i \in 0..(len - 1) |-> <<>>])
        w1(i) == IF words[i] = <<>> THEN alph[1] ELSE words[i][1]
        w2(i) == IF words[i] = <<>> THEN alph[Len(alph)] ELSE words[i][2]
    IN  <<Flatten([q \in 1..len |-> w1(q - 1)]), Flatten([q \in 1..len |-> w2(q - 1)])>>

\* lines 237-247 with the draws `draws` for the untouched positions
construct_solution(t, len, idx, alph, draws) ==
    LET words == solution_words(t, len, idx)
        free == untouched(words, 0, len)
        rank(i) == CHOOSE q \in 1..Len(free) : free[q] = i
        w1(i) == IF words[i] = <<>> THEN alph[draws[rank(i)] + 1] ELSE words[i][1]
        w2(i) == IF words[i] = <<>> THEN alph[draws[rank(i)] + 1] ELSE words[i][2]
    IN  <<Flatten([q \in 1..len |-> w1(q - 1)]), Flatten([q \in 1..len |-> w2(q - 1)])>>

(***************************************************************************)
(* birthday_attack.rs                                                      *)
(***************************************************************************)
\* gen_string with the draws of gen_range given
gen_string(len, alph, draws) == Flatten([q \in 1..len |-> alph[draws[q] + 1]])

\* the loop of get_hash over the characters lo..hi, entered with `res`
\* (evaluated by halves of the range, as leaf_hash)
RECURSIVE get_hash_range(_, _, _, _, _, _)
get_hash_range(res, word, base, module, lo, hi) ==
    IF hi < lo THEN res
    ELSE IF hi = lo THEN ((res * base) + word[hi]) % module
    ELSE LET mid == (lo + hi) \div 2
             left == get_hash_range(res, word, base, module, lo, mid)
         IN  IF left = left
             THEN get_hash_range(left, word, base, module, mid + 1, hi)
             ELSE 0

get_hash(word, base, module) == get_hash_range(0, word, base, module, 1, Len(word))

\* (module as f64).sqrt() as usize
sqrt_bound(module) == CHOOSE b \in 0..module : b * b <= module /\ (b + 1) * (b + 1) > module

\* HashMap::insert: the map afterwards and the value it held for the key
samples_insert(map, hash, word) ==
    {e \in map : e.hash # hash} \cup {[hash |-> hash, word |-> word]}

\* mutant: the lookup ignores the key
samples_get_any_slot(map, hash) == {e.word : e \in map}

samples_get(map, hash) == {e.word : e \in {e \in map : e.hash = hash}}

(***************************************************************************)
(* main.rs tests: the hash the tests recompute, (h * base + c) % module    *)
(***************************************************************************)
RECURSIVE test_hash_range(_, _, _, _, _, _)
test_hash_range(h, s, base, module, lo, hi) ==
    IF hi < lo THEN h
    ELSE IF hi = lo THEN ((h * base) + s[hi]) % module
    ELSE LET mid == (lo + hi) \div 2
             left == test_hash_range(h, s, base, module, lo, mid)
         IN  IF left = left
             THEN test_hash_range(left, s, base, module, mid + 1, hi)
             ELSE 0

test_hash(s, base, module) == test_hash_range(0, s, base, module, 1, Len(s))

(***************************************************************************)
(* Inputs                                                                  *)
(***************************************************************************)
Word_a == <<97>>
Word_b == <<98>>
Word_c == <<99>>
Word_z == <<122>>

TreeAlphabets ==
    {<<Word_a, Word_b>>, <<Word_a, Word_z>>, <<Word_a, Word_a>>, <<Word_a>>,
     <<Word_a, Word_b, Word_c>>, <<<<97, 98>>, <<98, 97>>>>}

TreeParams ==
    {<<<<31, 101>>>>, <<<<2, 3>>>>, <<<<1, 3>>>>, <<<<31, 10007>>>>,
     <<<<9973, 10007>>>>, <<<<31, 101>>, <<37, 103>>>>, <<<<31, 10007>>, <<31, 101>>>>,
     <<<<31, 101>>, <<4, 3>>>>}

ClusterSizes == 0..3

BirthdayAlphabets ==
    {<<Word_a, Word_b>>, <<Word_a, Word_a>>, <<Word_a>>, <<<<97, 98>>, <<98, 97>>>>}

BirthdayParams ==
    {<<<<2, 4>>>>, <<<<2, 16>>>>, <<<<3, 9>>>>, <<<<2, 2>>>>, <<<<3, 5>>>>,
     <<<<2, 4>>, <<2, 16>>>>, <<<<2, 8>>, <<3, 4>>>>, <<<<2, 3>>, <<2, 4>>>>}

Pending == [tag |-> "Pending", fi |-> <<>>, se |-> <<>>]
None == [tag |-> "None", fi |-> <<>>, se |-> <<>>]
Some(fi, se) == [tag |-> "Some", fi |-> fi, se |-> se]

base == params[round][1]
module == params[round][2]

(***************************************************************************)
(* State machine: birthday and tree sub-commands                           *)
(***************************************************************************)
Init ==
    /\ backend \in {"birthday", "tree"}
    /\ params \in (IF backend = "tree" THEN TreeParams ELSE BirthdayParams)
    /\ cluster_size \in (IF backend = "tree" THEN ClusterSizes ELSE {0})
    /\ init_alphabet \in (IF backend = "tree" THEN TreeAlphabets ELSE BirthdayAlphabets)
    /\ alphabet = init_alphabet
    /\ round = 1
    /\ pc = "call"
    /\ result = Pending
    /\ calls = <<>>
    /\ p = PStart
    /\ tree = <<>>
    /\ phase = 0
    /\ node = 0
    /\ merged = [node |-> 0, pops |-> <<>>, pushes |-> <<>>]
    /\ trial_len = LenStart
    /\ count = 0
    /\ samples = {}
    /\ length = 0
    /\ tbase = <<>>
    /\ tpos = 0
    /\ h1 = <<>>
    /\ h2 = <<>>
    /\ init_i = 0
    /\ init_pot = <<>>
    /\ init_wrapped = FALSE

\* find_collision: the loop body calls find_single_collision(b, m, .., &alphabet)
CallBackend ==
    /\ pc = "call"
    /\ calls' = Append(calls, [round |-> round, alphabet |-> alphabet, ret |-> Pending])
    /\ pc' = IF backend = "tree" THEN "attempt" ELSE "sample"
    /\ p' = PStart
    /\ tree' = <<>>
    /\ trial_len' = LenStart
    /\ count' = 0
    /\ samples' = {}
    /\ UNCHANGED <<backend, params, cluster_size, init_alphabet, alphabet, round,
                   result, phase, node, merged, overflow_vars, init_vars>>

\* mutant: a None from the backend does not end the loop
lifter_return_goes_on(ret) ==
    /\ calls' = [calls EXCEPT ![Len(calls)].ret = ret]
    /\ alphabet' = IF ret.tag = "None" THEN alphabet ELSE <<ret.fi, ret.se>>
    /\ IF round = Len(params)
       THEN /\ result' = IF ret.tag = "None" THEN None ELSE Some(alphabet'[1], alphabet'[2])
            /\ pc' = "done"
            /\ round' = round
       ELSE /\ result' = result
            /\ pc' = "call"
            /\ round' = round + 1
    /\ UNCHANGED <<backend, params, cluster_size, init_alphabet, overflow_vars, init_vars>>

\* find_collision: what the loop does with the value the backend returned
lifter_return(ret) ==
    /\ calls' = [calls EXCEPT ![Len(calls)].ret = ret]
    /\ IF ret.tag = "None"
       THEN /\ result' = None
            /\ pc' = "done"
            /\ UNCHANGED <<alphabet, round>>
       ELSE /\ alphabet' = <<ret.fi, ret.se>>
            /\ IF round = Len(params)
               THEN /\ result' = Some(alphabet'[1], alphabet'[2])
                    /\ pc' = "done"
                    /\ round' = round
               ELSE /\ result' = result
                    /\ pc' = "call"
                    /\ round' = round + 1
    /\ UNCHANGED <<backend, params, cluster_size, init_alphabet, overflow_vars, init_vars>>

\* tree find_single_collision: `for i in 3..12`, try_attack up to init_attack
TreeInitAttack ==
    /\ pc = "attempt"
    /\ p <= Min(PEnd - 1, AttemptCap)
    /\ tree' = init_attack(tree, Pow2(p), alphabet, base, module)
    /\ phase' = p - 1
    /\ pc' = "phase"
    /\ UNCHANGED <<backend, lifter_vars, result, p, node, merged, birthday_vars,
                   overflow_vars, init_vars>>

\* tree find_single_collision: the loop over the attempts ends, None
TreeExhausted ==
    /\ pc = "attempt"
    /\ p > Min(PEnd - 1, AttemptCap)
    /\ lifter_return(None)
    /\ UNCHANGED <<tree_vars, birthday_vars>>

\* run_phase: line 138, the re-ordering of the children's level
TreeSortPhase ==
    /\ pc = "phase"
    /\ IF sort_panics(tree, Pow2(phase))
       THEN pc' = "panic" /\ UNCHANGED <<tree, node>>
       ELSE /\ tree' = sort_phase(tree, Pow2(phase))
            /\ node' = Pow2(phase)
            /\ pc' = "merge"
    /\ UNCHANGED <<backend, lifter_vars, result, p, phase, merged, birthday_vars,
                   overflow_vars, init_vars>>

\* run_phase: one iteration of `for i in z..2 * z`, and what follows it in
\* run_phase, try_attack and find_single_collision when it was the last
TreeMerge ==
    /\ pc = "merge"
    /\ IF merge_panics(tree, 2 * node, 2 * node + 1)
       THEN pc' = "panic" /\ UNCHANGED <<tree, node, merged, phase, p>>
       ELSE LET st == merge(tree, node, cluster_size)
            IN  /\ tree' = [tree EXCEPT ![node] = st.out]
                /\ merged' = [node |-> node, pops |-> st.pops, pushes |-> st.pushes]
                /\ IF st.found
                   THEN pc' = "construct" /\ UNCHANGED <<node, phase, p>>
                   ELSE IF node + 1 < 2 * Pow2(phase)
                   THEN pc' = "merge" /\ node' = node + 1 /\ UNCHANGED <<phase, p>>
                   ELSE IF phase > 0
                   THEN pc' = "phase" /\ phase' = phase - 1 /\ UNCHANGED <<node, p>>
                   ELSE pc' = "attempt" /\ p' = p + 1 /\ UNCHANGED <<node, phase>>
    /\ UNCHANGED <<backend, lifter_vars, result, birthday_vars, overflow_vars, init_vars>>

\* try_attack: construct_solution(len, idx) for the idx run_phase returned
TreeConstruct ==
    /\ pc = "construct"
    /\ \E draws \in Draws(Pow2(p) - 1, Len(alphabet)) :
          LET sol == construct_solution(tree, Pow2(p), node, alphabet, draws)
          IN  lifter_return(Some(sol[1], sol[2]))
    /\ UNCHANGED <<tree_vars, birthday_vars>>

\* what one iteration of `for _ in 0..bound` does with the draws given
sample(draws) ==
    LET word == gen_string(trial_len, alphabet, draws)
        hash == get_hash(word, base, module)
    IN  [word |-> word, hash |-> hash, coll |-> samples_get(samples, hash)]

\* birthday find_single_collision: an iteration that returns Some((word, coll))
BirthdayCollide ==
    /\ pc = "sample"
    /\ trial_len <= Min(LenEnd - 1, TrialLenCap)
    /\ \E draws \in Draws(trial_len, Len(alphabet)) :
          LET sm == sample(draws)
          IN  \E coll \in sm.coll :
                 /\ sm.word # coll
                 /\ lifter_return(Some(sm.word, coll))
    /\ UNCHANGED <<tree_vars, birthday_vars>>

\* birthday find_single_collision: an iteration that inserts and goes on, to
\* the next sample or, after `bound` samples, to the next trial length
BirthdayMiss ==
    /\ pc = "sample"
    /\ trial_len <= Min(LenEnd - 1, TrialLenCap)
    /\ \E draws \in Draws(trial_len, Len(alphabet)) :
          LET sm == sample(draws)
          IN  /\ \A coll \in sm.coll : sm.word = coll
              /\ IF count + 1 < sqrt_bound(module)
                 THEN /\ samples' = samples_insert(samples, sm.hash, sm.word)
                      /\ count' = count + 1
                      /\ trial_len' = trial_len
                 ELSE /\ samples' = {}
                      /\ count' = 0
                      /\ trial_len' = trial_len + 1
    /\ UNCHANGED <<backend, lifter_vars, result, pc, tree_vars, overflow_vars, init_vars>>

\* birthday find_single_collision: `for len in 6..64` ends, None
BirthdayExhausted ==
    /\ pc = "sample"
    /\ trial_len > Min(LenEnd - 1, TrialLenCap)
    /\ lifter_return(None)
    /\ UNCHANGED <<tree_vars, birthday_vars>>

Next ==
    \/ CallBackend
    \/ TreeInitAttack
    \/ TreeExhausted
    \/ TreeSortPhase
    \/ TreeMerge
    \/ TreeConstruct
    \/ BirthdayCollide
    \/ BirthdayMiss
    \/ BirthdayExhausted

Spec == Init /\ [][Next]_vars

(***************************************************************************)
(* overflow_attack.rs and the overflow branch of main                      *)
(***************************************************************************)
\* usize::count_ones
RECURSIVE count_ones(_)
count_ones(i) == IF i = 0 THEN 0 ELSE (i % 2) + count_ones(i \div 2)

\* usize::next_power_of_two: the least power of two >= n (1 for n = 0)
RECURSIVE next_power_of_two_from(_, _)
next_power_of_two_from(n, c) == IF c >= n THEN c ELSE next_power_of_two_from(n, 2 * c)

\* mutant: the length is not rounded
next_power_of_two_omitted(n) == n

next_power_of_two(n) == next_power_of_two_from(n, 1)

\* mutant: the parity of i instead of the parity of its bit count
overflow_chars_index_parity(i) ==
    LET q == i % 2
    IN  <<97 + q, 98 - q>>

\* overflow_attack::find_collision: character i of fi and of se
overflow_chars(i) ==
    LET q == count_ones(i) % 2
    IN  <<97 + q, 98 - q>>

overflow_find_collision(len) ==
    Some([i \in 1..len |-> overflow_chars(i - 1)[1]],
         [i \in 1..len |-> overflow_chars(i - 1)[2]])

(***************************************************************************)
(* u64 with wrap-around: eight bytes, least significant first              *)
(***************************************************************************)
RECURSIVE to_u64_bytes(_, _)
to_u64_bytes(n, k) == IF k = 0 THEN <<>> ELSE <<n % 256>> \o to_u64_bytes(n \div 256, k - 1)

\* `c as u64` and the literal `0u64`
to_u64(n) == to_u64_bytes(n, 8)

\* column k of the schoolbook product: sum of a[i] * b[k - i], i = 0..k
RECURSIVE mul_column(_, _, _, _)
mul_column(a, b, k, i) ==
    IF i > k THEN 0 ELSE (a[i + 1] * b[k - i + 1]) + mul_column(a, b, k, i + 1)

RECURSIVE mul_bytes(_, _, _, _)
mul_bytes(a, b, k, carry) ==
    IF k > 7 THEN <<>>
    ELSE LET t == carry + mul_column(a, b, k, 0)
         IN  <<t % 256>> \o mul_bytes(a, b, k + 1, t \div 256)

\* u64::wrapping_mul: the product modulo 2^64
wrapping_mul(a, b) == mul_bytes(a, b, 0, 0)

RECURSIVE add_bytes(_, _, _, _)
add_bytes(a, b, k, carry) ==
    IF k > 7 THEN <<>>
    ELSE LET t == carry + a[k + 1] + b[k + 1]
         IN  <<t % 256>> \o add_bytes(a, b, k + 1, t \div 256)

\* u64::wrapping_add: the sum modulo 2^64
wrapping_add(a, b) == add_bytes(a, b, 0, 0)

\* the bases the overflow test is run with
OddBases ==
    {to_u64(1), to_u64(3), to_u64(9973), to_u64(1000000007),
     <<255, 255, 255, 255, 255, 255, 255, 255>>,
     <<21, 124, 74, 127, 185, 121, 55, 158>>}

EvenBases == {to_u64(2), to_u64(10), to_u64(9972)}

\* <<target length, base>>
OverflowRuns ==
    ({0, 1, 2, 3, 5, 100, 512, 513, 1024} \X (OddBases \cup EvenBases))
        \cup ({1025} \X {to_u64(9973), to_u64(2)})

InitOverflow ==
    /\ backend = "overflow"
    /\ \E run \in OverflowRuns : length = run[1] /\ tbase = run[2]
    /\ pc = "main"
    /\ result = Pending
    /\ tpos = 0
    /\ h1 = to_u64(0)
    /\ h2 = to_u64(0)
    /\ params = <<>>
    /\ cluster_size = 0
    /\ init_alphabet = <<>>
    /\ alphabet = <<>>
    /\ round = 1
    /\ calls = <<>>
    /\ p = PStart
    /\ tree = <<>>
    /\ phase = 0
    /\ node = 0
    /\ merged = [node |-> 0, pops |-> <<>>, pushes |-> <<>>]
    /\ trial_len = LenStart
    /\ count = 0
    /\ samples = {}
    /\ init_i = 0
    /\ init_pot = <<>>
    /\ init_wrapped = FALSE

\* main, lines 147-150: round the length up and call the solver
OverflowMain ==
    /\ pc = "main"
    /\ result' = overflow_find_collision(next_power_of_two(length))
    /\ pc' = "hash"
    /\ UNCHANGED <<backend, lifter_vars, tree_vars, birthday_vars, overflow_vars, init_vars>>

\* the test's loops, lines 212-217, one character of s1 and of s2 at a time
\* (the two loops are independent, so they are stepped together)
OverflowHashStep ==
    /\ pc = "hash"
    /\ tpos < Len(result.fi)
    /\ h1' = wrapping_add(wrapping_mul(h1, tbase), to_u64(result.fi[tpos + 1]))
    /\ h2' = wrapping_add(wrapping_mul(h2, tbase), to_u64(result.se[tpos + 1]))
    /\ tpos' = tpos + 1
    /\ pc' = IF tpos + 1 = Len(result.fi) THEN "done" ELSE "hash"
    /\ UNCHANGED <<backend, lifter_vars, result, tree_vars, birthday_vars, length, tbase, init_vars>>

NextOverflow ==
    \/ OverflowMain
    \/ OverflowHashStep

SpecOverflow == InitOverflow /\ [][NextOverflow]_vars

(***************************************************************************)
(* tree_attack.rs in exact i128 arithmetic: init_attack and new_leaf.      *)
(*                                                                         *)
(* An i128 value is [neg, mag], sign and magnitude; the magnitude is a     *)
(* sequence of twenty bytes, least significant first, which holds every    *)
(* exact result of one operation on two i128 values that are below 2^64 in *)
(* magnitude.  Zero has neg = FALSE.                                       *)
(***************************************************************************)
WideIdx == 1..20

\* the magnitude of a small natural number
wide(n) == to_u64_bytes(n, Cardinality(WideIdx))

\* `base as i128`, `module as i128`: the magnitude of a u64
wide_of_u64(b) == b \o [k \in 1..(Cardinality(WideIdx) - Len(b)) |-> 0]

wide_less(a, b) ==
    \E k \in WideIdx : a[k] < b[k] /\ \A j \in WideIdx : j > k => a[j] = b[j]

RECURSIVE wide_add_from(_, _, _, _)
wide_add_from(a, b, k, carry) ==
    IF k > Len(a) THEN <<>>
    ELSE LET t == carry + a[k] + b[k]
         IN  <<t % 256>> \o wide_add_from(a, b, k + 1, t \div 256)

wide_add(a, b) == wide_add_from(a, b, 1, 0)

RECURSIVE wide_sub_from(_, _, _, _)
wide_sub_from(a, b, k, borrow) ==
    IF k > Len(a) THEN <<>>
    ELSE LET t == a[k] - b[k] - borrow
         IN  <<IF t < 0 THEN t + 256 ELSE t>>
                 \o wide_sub_from(a, b, k + 1, IF t < 0 THEN 1 ELSE 0)

\* a - b for a >= b
wide_sub(a, b) == wide_sub_from(a, b, 1, 0)

RECURSIVE wide_mul_from(_, _, _, _)
wide_mul_from(a, b, k, carry) ==
    IF k >= Len(a) THEN <<>>
    ELSE LET t == carry + mul_column(a, b, k, 0)
         IN  <<t % 256>> \o wide_mul_from(a, b, k + 1, t \div 256)

wide_mul(a, b) == wide_mul_from(a, b, 0, 0)

RECURSIVE wide_scale_from(_, _, _, _)
wide_scale_from(q, a, k, carry) ==
    IF k > Len(a) THEN <<>>
    ELSE LET t == carry + (q * a[k])
         IN  <<t % 256>> \o wide_scale_from(q, a, k + 1, t \div 256)

\* q * a for a byte q
wide_scale(q, a) == wide_scale_from(q, a, 1, 0)

\* the byte t \div m for t < 256 * m, found bit by bit from `bit` down
RECURSIVE quot_digit(_, _, _, _)
quot_digit(t, m, q, bit) ==
    IF bit = 0 THEN q
    ELSE IF wide_less(t, wide_scale(q + bit, m)) THEN quot_digit(t, m, q, bit \div 2)
    ELSE quot_digit(t, m, q + bit, bit \div 2)

\* long division by bytes, from byte k of x down, with the remainder r so far
RECURSIVE wide_rem_from(_, _, _, _)
wide_rem_from(x, m, k, r) ==
    IF k = 0 THEN r
    ELSE LET t == <<x[k]>> \o SubSeq(r, 1, Len(r) - 1)
             nx == wide_sub(t, wide_scale(quot_digit(t, m, 0, 128), m))
         IN  IF nx = nx THEN wide_rem_from(x, m, k - 1, nx) ELSE r

\* x mod m for m > 0
wide_rem(x, m) == wide_rem_from(x, m, Len(x), wide(0))

i128(neg, mag) == [neg |-> neg /\ mag # wide(0), mag |-> mag]

\* `c1 as i128` and the literals 0 and 1i128
i128_of(n) == i128(FALSE, wide(n))

\* the exact results of +, -, *, and of % with a positive divisor (the sign of
\* the dividend, as Rust's %)
i128_add(x, y) ==
    IF x.neg = y.neg THEN i128(x.neg, wide_add(x.mag, y.mag))
    ELSE IF wide_less(x.mag, y.mag) THEN i128(y.neg, wide_sub(y.mag, x.mag))
    ELSE i128(x.neg, wide_sub(x.mag, y.mag))

i128_sub(x, y) == i128_add(x, i128(~y.neg, y.mag))

i128_mul(x, y) == i128(x.neg # y.neg, wide_mul(x.mag, y.mag))

i128_rem(x, m) == i128(x.neg, wide_rem(x.mag, m.mag))

i128_less(x, y) ==
    IF x.neg # y.neg THEN x.neg
    ELSE IF x.neg THEN wide_less(y.mag, x.mag)
    ELSE wide_less(x.mag, y.mag)

\* 2^127 and 2^128 as magnitudes
Two127 == [k \in WideIdx |-> IF k = 16 THEN 128 ELSE 0]
Two128 == [k \in WideIdx |-> IF k = 17 THEN 1 ELSE 0]

\* x is in i128::MIN ..= i128::MAX
in_i128(x) == IF x.neg THEN ~wide_less(Two127, x.mag) ELSE wide_less(x.mag, Two127)

\* the two's-complement value a build without overflow checks keeps
i128_wrap(x) ==
    LET low == [k \in WideIdx |-> IF k <= 16 THEN x.mag[k] ELSE 0]
        v == IF x.neg /\ low # wide(0) THEN wide_sub(Two128, low) ELSE low
    IN  IF wide_less(v, Two127) THEN i128(FALSE, v) ELSE i128(TRUE, wide_sub(Two128, v))

\* one arithmetic operator of the source, op = <<operator, right operand>>,
\* applied to the i128 value x: the exact result
exact(x, op) ==
    CASE op[1] = "*" -> i128_mul(x, op[2])
      [] op[1] = "+" -> i128_add(x, op[2])
      [] op[1] = "-" -> i128_sub(x, op[2])
      [] op[1] = "%" -> i128_rem(x, op[2])

\* the operators ops applied in order from operator k on, entered with
\* st = [v, of]: the value left and whether an operator overflowed.  An
\* operator that overflows leaves the two's-complement value.
RECURSIVE run_ops(_, _, _)
run_ops(st, ops, k) ==
    IF k > Len(ops) THEN st
    ELSE LET x == exact(st.v, ops[k])
             nx == [v |-> i128_wrap(x), of |-> st.of \/ ~in_i128(x)]
         IN  IF nx = nx THEN run_ops(nx, ops, k + 1) ELSE st

\* new_leaf line 49 for the characters c1, c2:
\* hash = (hash * base + c1 as i128 - c2 as i128 + module) % module
hash_step_ops(c1, c2, b, m) ==
    <<<<"*", b>>, <<"+", i128_of(c1)>>, <<"-", i128_of(c2)>>, <<"+", m>>, <<"%", m>>>>

\* new_leaf: the loop over the zipped characters, then sum = hash * pot % module
new_leaf_ops(word1, word2, b, m, pt) ==
    Flatten([k \in 1..Min(Len(word1), Len(word2)) |->
                hash_step_ops(word1[k], word2[k], b, m)])
        \o <<<<"*", pt>>, <<"%", m>>>>

\* new_leaf: the node and whether an operation overflowed
new_leaf_i128(idx, word1, word2, b, m, pt) ==
    LET h == run_ops([v |-> i128_of(0), of |-> FALSE], new_leaf_ops(word1, word2, b, m, pt), 1)
    IN  [node |-> [kind |-> "Leaf", sum |-> h.v, idx |-> idx,
                   word1 |-> word1, word2 |-> word2],
         of |-> h.of]

\* the pushes of lines 106-119 for position i, in push order
leaf_pushes_i128(i, alph, b, m, pt) ==
    LET n == Len(alph)
        all == [q \in 1..(n * n) |-> <<(q - 1) \div n, (q - 1) % n>>]
        ab == SelectSeq(all, LAMBDA q : q[1] # q[2])
    IN  [q \in 1..Len(ab) |->
            new_leaf_i128(i, alph[ab[q][1] + 1], alph[ab[q][2] + 1], b, m, pt)]

\* line 120 on i128 sums (ties keep their order, see sort_nodes)
RECURSIVE sort_nodes_i128(_)
sort_nodes_i128(s) ==
    IF s = <<>> THEN <<>>
    ELSE LET x == s[Len(s)]
             d == sort_nodes_i128(SubSeq(s, 1, Len(s) - 1))
             k == Cardinality({j \in 1..Len(d) : ~i128_less(x.sum, d[j].sum)})
         IN  SubSeq(d, 1, k) \o <<x>> \o SubSeq(d, k + 1, Len(d))

\* line 121 on i128 sums
RECURSIVE dedup_i128(_)
dedup_i128(s) ==
    IF Len(s) <= 1 THEN s
    ELSE LET d == dedup_i128(SubSeq(s, 1, Len(s) - 1))
         IN  IF d[Len(d)].sum = s[Len(s)].sum THEN d ELSE Append(d, s[Len(s)])

\* lines 122-124: pot = pot * self.base % self.module, word_len times
pot_loop_ops(b, m, word_len) ==
    Flatten([k \in 1..word_len |-> <<<<"*", b>>, <<"%", m>>>>])

\* one iteration of `for i in (0..len).rev()`: the cluster list built for
\* position i, pot afterwards, and whether an operation overflowed
init_position_i128(i, alph, b, m, pt) ==
    LET pushes == leaf_pushes_i128(i, alph, b, m, pt)
        nodes == [q \in 1..Len(pushes) |-> pushes[q].node]
        pot_after == run_ops([v |-> pt, of |-> FALSE], pot_loop_ops(b, m, Len(alph[1])), 1)
    IN  [list |-> dedup_i128(sort_nodes_i128(nodes)),
         pot |-> pot_after.v,
         of |-> pot_after.of \/ \E q \in 1..Len(pushes) : pushes[q].of]

\* <<B, M>> as main parses them: u64, eight bytes, least significant first
I128Params ==
    {<<to_u64(31), to_u64(101)>>,
     <<to_u64(1), to_u64(3)>>,
     <<to_u64(9973), to_u64(1000000007)>>,
     <<to_u64(1000000007), <<255, 255, 255, 255, 255, 255, 255, 127>>>>,
     <<<<255, 255, 255, 255, 255, 255, 255, 127>>, <<0, 0, 0, 0, 0, 0, 0, 128>>>>,
     <<<<0, 0, 0, 0, 0, 0, 0, 128>>, <<197, 255, 255, 255, 255, 255, 255, 255>>>>,
     <<<<254, 255, 255, 255, 255, 255, 255, 255>>, <<255, 255, 255, 255, 255, 255, 255, 255>>>>,
     <<<<255, 255, 255, 255, 255, 255, 255, 255>>, <<197, 255, 255, 255, 255, 255, 255, 255>>>>}

I128Alphabets ==
    {<<Word_a, Word_b>>, <<Word_a, Word_z>>, <<<<97, 98>>, <<98, 97>>>>}

\* find_single_collision has built the TreeAttack and try_attack(3) is in
\* init_attack before its loop: the tree resized, pot = 1
InitI128 ==
    /\ backend = "tree"
    /\ params \in {<<bm>> : bm \in I128Params}
    /\ cluster_size \in {2}
    /\ init_alphabet \in I128Alphabets
    /\ alphabet = init_alphabet
    /\ round = 1
    /\ pc = "init"
    /\ result = Pending
    /\ calls = <<[round |-> 1, alphabet |-> init_alphabet, ret |-> Pending]>>
    /\ p = PStart
    /\ tree = [x \in 0..(2 * Pow2(PStart) - 1) |-> <<>>]
    /\ phase = 0
    /\ node = 0
    /\ merged = [node |-> 0, pops |-> <<>>, pushes |-> <<>>]
    /\ trial_len = LenStart
    /\ count = 0
    /\ samples = {}
    /\ length = 0
    /\ tbase = <<>>
    /\ tpos = 0
    /\ h1 = <<>>
    /\ h2 = <<>>
    /\ init_i = Pow2(PStart)
    /\ init_pot = i128_of(1)
    /\ init_wrapped = FALSE

\* init_attack: one iteration of the loop over the positions.  An operation
\* that overflows wraps around in a build without overflow checks.
I128InitPosition ==
    /\ pc = "init"
    /\ init_i > 0
    /\ \E st \in {init_position_i128(init_i - 1, alphabet, i128(FALSE, wide_of_u64(base)),
                                      i128(FALSE, wide_of_u64(module)), init_pot)} :
           /\ tree' = [tree EXCEPT ![init_i - 1 + Pow2(p)] = st.list]
           /\ init_pot' = st.pot
           /\ init_wrapped' = (init_wrapped \/ st.of)
    /\ init_i' = init_i - 1
    /\ pc' = IF init_i = 1 THEN "init_done" ELSE "init"
    /\ UNCHANGED <<backend, lifter_vars, result, p, phase, node, merged, birthday_vars,
                   overflow_vars>>

\* init_attack: an operation of the iteration overflows in a build with
\* overflow checks, and the program panics
I128InitPanics ==
    /\ pc = "init"
    /\ init_i > 0
    /\ \E st \in {init_position_i128(init_i - 1, alphabet, i128(FALSE, wide_of_u64(base)),
                                      i128(FALSE, wide_of_u64(module)), init_pot)} :
           /\ st.of
           /\ pc' = "panic"
    /\ UNCHANGED <<backend, lifter_vars, result, tree_vars, birthday_vars, overflow_vars,
                   init_vars>>

NextI128 ==
    \/ I128InitPosition
    \/ I128InitPanics

SpecI128 == InitI128 /\ [][NextI128]_vars

(***************************************************************************)
(* Properties                                                              *)
(***************************************************************************)
PairwiseDistinct(al) == \A i, j \in 1..Len(al) : i # j => al[i] # al[j]

\* s1 and s2 have the same polynomial hash under the j-th parameter pair
Collides(s1, s2, j) ==
    test_hash(s1, params[j][1], params[j][2]) = test_hash(s2, params[j][1], params[j][2])

\* the k-th run of w characters of s
Chunk(s, k, w) == SubSeq(s, (k - 1) * w + 1, k * w)

\* s is n words of the alphabet al, one after the other
IsConcatOf(s, n, al) ==
    /\ Len(s) = n * Len(al[1])
    /\ \A k \in 1..n : \E a \in 1..Len(al) : Chunk(s, k, Len(al[1])) = al[a]

\* the leaves below the entry at position q of cluster list x
RECURSIVE SubtreeLeaves(_, _, _)
SubtreeLeaves(t, x, q) ==
    LET n == t[x][q + 1]
    IN  IF n.kind = "Leaf" THEN {n}
        ELSE SubtreeLeaves(t, 2 * n.idx, n.pos_left)
                 \cup SubtreeLeaves(t, 2 * n.idx + 1, n.pos_right)

StrictlyAscending(l) == \A k \in 1..(Len(l) - 1) : get_sum(l[k]) < get_sum(l[k + 1])

NonDecreasing(q) == \A k \in 1..(Len(q) - 1) : q[k] <= q[k + 1]

IsOdd(b) == b[1] % 2 = 1

IsPowerOfTwo(n) == \E k \in 0..12 : n = Pow2(k)

\* the backend call last made has returned Some and its state is still there
JustReturnedSome ==
    /\ pc \in {"call", "done"}
    /\ Len(calls) >= 1
    /\ calls[Len(calls)].ret.tag = "Some"

\* C1: every pair a call of tree find_single_collision returns, for an
\* alphabet of at least two pairwise-distinct words and a cluster size >= 1,
\* has equal hashes under the (B, M) of the call, however small M is.
C1_TreeSingleCollides ==
    backend = "tree" =>
        \A q \in 1..Len(calls) :
            (/\ calls[q].ret.tag = "Some"
             /\ cluster_size >= 1
             /\ Len(calls[q].alphabet) >= 2
             /\ PairwiseDistinct(calls[q].alphabet))
                => Collides(calls[q].ret.fi, calls[q].ret.se, q)

\* C2: the pair find_collision returns (either lifter) has equal hashes under
\* every one of the k parameter pairs.
C2_LifterCollidesAll ==
    result.tag = "Some" =>
        \A j \in 1..Len(params) : Collides(result.fi, result.se, j)

\* C3: every pair a call of birthday find_single_collision returns has equal
\* hashes under the (B, M) of the call, is made of two different words, and
\* the two words have the length of one trial.
C3_BirthdaySameSlot ==
    backend = "birthday" =>
        \A q \in 1..Len(calls) :
            calls[q].ret.tag = "Some" =>
                /\ Collides(calls[q].ret.fi, calls[q].ret.se, q)
                /\ calls[q].ret.fi # calls[q].ret.se
                /\ Len(calls[q].ret.fi) = Len(calls[q].ret.se)

\* a birthday call has returned a pair found with at least two samples drawn
C3_Witness ==
    /\ backend = "birthday"
    /\ \E q \in 1..Len(calls) :
          /\ calls[q].ret.tag = "Some"
          /\ PairwiseDistinct(calls[q].alphabet)
          /\ sqrt_bound(params[q][2]) >= 2

\* C4: every pair find_collision returns consists of two different strings,
\* whether or not the words of the alphabet are pairwise distinct.
C4_Distinct == result.tag = "Some" => result.fi # result.se

\* C5: overflow_attack::find_collision(1024) returns two strings of length
\* 1024 whose wrap-around hashes modulo 2^64 are equal for every odd base.
C5_Overflow1024 ==
    (backend = "overflow" /\ length = 1024 /\ pc = "done" /\ IsOdd(tbase)) =>
        /\ Len(result.fi) = 1024
        /\ Len(result.se) = 1024
        /\ h1 = h2

\* the test of main.rs has run to its assertion: length 1024, base 9973
C5_Witness ==
    /\ backend = "overflow"
    /\ length = 1024
    /\ pc = "done"
    /\ tbase = to_u64(9973)
    /\ tpos = 1024
    /\ h1 = h2

\* C6 as stated: for every target length and every base the two strings of
\* the overflow path have length n, are over {a, b} and hash equally mod 2^64.
C6_AnyLengthAnyBase ==
    (backend = "overflow" /\ pc = "done") =>
        /\ Len(result.fi) = next_power_of_two(length)
        /\ Len(result.se) = next_power_of_two(length)
        /\ h1 = h2

\* C6 amended: for every target length L the two strings have the same
\* length n, the least power of two >= L, and are over {a, b}; they hash
\* equally mod 2^64 for every odd base when n >= 1024.
C6_OverflowAmended ==
    (backend = "overflow" /\ pc = "done") =>
        /\ Len(result.fi) = Len(result.se)
        /\ IsPowerOfTwo(Len(result.fi))
        /\ Len(result.fi) >= length
        /\ Len(result.fi) = 1 \/ Len(result.fi) < 2 * length
        /\ \A i \in 1..Len(result.fi) :
              result.fi[i] \in {97, 98} /\ result.se[i] \in {97, 98}
        /\ (Len(result.fi) >= 1024 /\ IsOdd(tbase)) => h1 = h2

\* a length that is rounded up, hashed to the end with an odd base
C6_Witness ==
    /\ backend = "overflow"
    /\ pc = "done"
    /\ length = 513
    /\ Len(result.fi) = 1024
    /\ IsOdd(tbase)
    /\ h1 = h2

\* C7: a returned pair is two concatenations of the same number of alphabet
\* words: l words, LenStart <= l < LenEnd, for birthday; 2^p words,
\* PStart <= p < PEnd, for tree, where a position outside the winning subtree
\* holds one alphabet word in both strings and a position inside it holds the
\* two words of a leaf of that position; the pair the lifter returns is made
\* of words of the alphabet it was given.
C7_AlphabetContainment ==
    /\ \A q \in 1..Len(calls) :
          calls[q].ret.tag = "Some" =>
              \E n \in (IF backend = "birthday" THEN LenStart..(LenEnd - 1)
                        ELSE {Pow2(k) : k \in PStart..(PEnd - 1)}) :
                  /\ IsConcatOf(calls[q].ret.fi, n, calls[q].alphabet)
                  /\ IsConcatOf(calls[q].ret.se, n, calls[q].alphabet)
    /\ (backend = "tree" /\ JustReturnedSome) =>
          LET al == calls[Len(calls)].alphabet
              w == Len(al[1])
              fi == calls[Len(calls)].ret.fi
              se == calls[Len(calls)].ret.se
              leaves == SubtreeLeaves(tree, node, 0)
          IN  \A i \in 0..(Pow2(p) - 1) :
                  IF \E lf \in leaves : lf.idx = i
                  THEN \E lf \in leaves :
                          /\ lf.idx = i
                          /\ \/ Chunk(fi, i + 1, w) = lf.word1 /\ Chunk(se, i + 1, w) = lf.word2
                             \/ Chunk(fi, i + 1, w) = lf.word2 /\ Chunk(se, i + 1, w) = lf.word1
                  ELSE Chunk(fi, i + 1, w) = Chunk(se, i + 1, w)
    /\ result.tag = "Some" =>
          /\ Len(result.fi) = Len(result.se)
          /\ Len(result.fi) % Len(init_alphabet[1]) = 0
          /\ IsConcatOf(result.fi, Len(result.fi) \div Len(init_alphabet[1]), init_alphabet)
          /\ IsConcatOf(result.se, Len(result.se) \div Len(init_alphabet[1]), init_alphabet)

\* the tree lifter has returned after two calls, the last one with a winning
\* subtree that leaves positions untouched
C7_Witness ==
    /\ backend = "tree"
    /\ result.tag = "Some"
    /\ Len(calls) = 2
    /\ Cardinality(SubtreeLeaves(tree, node, 0)) < Pow2(p)

\* C8: the tree solver never aborts: it returns a pair or None for every
\* non-empty alphabet (a single word included) and every cluster size (0
\* included).
C8_NeverAborts == pc # "panic"

\* C9: the calls of the backend are those of the pairs 1, 2, ... in order,
\* the first with the given alphabet and each later one with the pair the call
\* before returned; a call that returns None is the last and find_collision
\* has returned None with it; find_collision returns Some only after k calls
\* that all returned Some, and None only after a call that returned None.
C9_LifterPropagation ==
    /\ Len(calls) <= Len(params)
    /\ \A q \in 1..Len(calls) :
          /\ calls[q].round = q
          /\ q = 1 => calls[q].alphabet = init_alphabet
          /\ q > 1 => /\ calls[q - 1].ret.tag = "Some"
                      /\ calls[q].alphabet = <<calls[q - 1].ret.fi, calls[q - 1].ret.se>>
          /\ calls[q].ret.tag = "None" =>
                q = Len(calls) /\ result = None /\ pc = "done"
    /\ result.tag = "Some" =>
          /\ Len(calls) = Len(params)
          /\ \A q \in 1..Len(calls) : calls[q].ret.tag = "Some"
          /\ result = calls[Len(calls)].ret
    /\ result.tag = "None" =>
          /\ Len(calls) >= 1
          /\ calls[Len(calls)].ret.tag = "None"

\* the first of two backend calls returned None and the second was not made
C9_Witness ==
    /\ result.tag = "None"
    /\ Len(params) = 2
    /\ Len(calls) = 1
    /\ pc = "done"

\* C10: every cluster list is strictly ascending by sum in every state of an
\* attempt (after init_attack, after the re-ordering of a level, after each
\* merge), and the keys a merge pops are non-decreasing.
C10_ClusterListsAscending ==
    /\ \A x \in DOMAIN tree : StrictlyAscending(tree[x])
    /\ NonDecreasing(merged.pops)

\* a merge above the leaves' parents has built a list of three entries out of
\* more than three pops
C10_Witness ==
    /\ backend = "tree"
    /\ pc = "merge"
    /\ phase < p - 1
    /\ node > Pow2(phase)
    /\ merged.node = node - 1
    /\ Len(tree[merged.node]) >= 3
    /\ Len(merged.pops) > 3

\* the state right after a merge of run_phase: merged is the trace of the
\* merge of tree[merged.node], whose children have not changed since
JustMerged ==
    /\ backend = "tree"
    /\ \/ pc = "merge" /\ node > Pow2(phase) /\ merged.node = node - 1
       \/ pc = "construct" /\ merged.node = node
       \/ pc = "phase" /\ phase < p - 1 /\ merged.node = node
       \/ pc = "attempt" /\ p > PStart /\ merged.node = node

\* the values x + y and |x - y| over the entries x of l and y of r
Combinations(l, r) ==
    {get_sum(l[a]) + get_sum(r[b]) : a \in 1..Len(l), b \in 1..Len(r)}
        \cup {Abs(get_sum(l[a]) - get_sum(r[b])) : a \in 1..Len(l), b \in 1..Len(r)}

\* the k least values of the finite set of integers vs, ascending
RECURSIVE LeastOf(_, _)
LeastOf(vs, k) ==
    IF k = 0 \/ vs = {} THEN <<>>
    ELSE LET v == CHOOSE v \in vs : \A u \in vs : v <= u
         IN  <<v>> \o LeastOf(vs \ {v}, k - 1)

NonNegativeAscending(l) ==
    /\ StrictlyAscending(l)
    /\ \A k \in 1..Len(l) : get_sum(l[k]) >= 0

\* C11: after a merge whose children are strictly ascending with non-negative
\* sums and have no zero combination, the sums of T[i] are the min(C, D)
\* least distinct values of { x + y } \cup { |x - y| }, ascending; and no
\* (pl, pr, stream) triple is pushed to the heap twice within a merge.
C11_MergeIsReference ==
    JustMerged =>
        LET l == tree[2 * merged.node]
            r == tree[2 * merged.node + 1]
            vs == Combinations(l, r)
        IN  /\ (NonNegativeAscending(l) /\ NonNegativeAscending(r) /\ 0 \notin vs) =>
                  [k \in 1..Len(tree[merged.node]) |-> get_sum(tree[merged.node][k])]
                      = LeastOf(vs, Min(cluster_size, Cardinality(vs)))
            /\ \A a, b \in 1..Len(merged.pushes) :
                  a # b => merged.pushes[a] # merged.pushes[b]

\* a merge of two lists of three entries each that kept the three least of
\* more than three values, popping an entry of each stream
C11_Witness ==
    /\ JustMerged
    /\ cluster_size = 3
    /\ Len(tree[2 * merged.node]) = 3
    /\ Len(tree[2 * merged.node + 1]) = 3
    /\ NonNegativeAscending(tree[2 * merged.node])
    /\ NonNegativeAscending(tree[2 * merged.node + 1])
    /\ 0 \notin Combinations(tree[2 * merged.node], tree[2 * merged.node + 1])
    /\ Cardinality(Combinations(tree[2 * merged.node], tree[2 * merged.node + 1])) > 3
    /\ Len(tree[merged.node]) = 3
    /\ \E k \in 1..3 : tree[merged.node][k].rev_left # tree[merged.node][k].rev_right
    /\ \E k \in 1..3 : ~tree[merged.node][k].rev_left /\ ~tree[merged.node][k].rev_right
    /\ Len(merged.pushes) > Len(tree[2 * merged.node]) + 1

\* b^k mod m, by squaring
RECURSIVE ModPow(_, _, _)
ModPow(b, k, m) ==
    IF k = 0 THEN 1 % m
    ELSE LET h == ModPow(b, k \div 2, m)
         IN  IF k % 2 = 0 THEN (h * h) % m ELSE (((h * h) % m) * (b % m)) % m

\* the residue in [0, M) the leaf of position i with the words (wa, wb) is to
\* store: (H(wa) - H(wb)) * B^(w * (n - 1 - i)) mod M
LeafResidue(i, wa, wb) ==
    ((test_hash(wa, base, module) - test_hash(wb, base, module))
        * ModPow(base, Len(wa) * (Pow2(p) - 1 - i), module)) % module

\* an attempt of the tree solver is under way on the tree of the state
InAttempt == backend = "tree" /\ pc \in {"phase", "merge", "construct", "panic"}

\* C12: every leaf stores the residue (H(w_a) - H(w_b)) * B^(w(n-1-i)) mod M,
\* a value of [0, M); every internal node stores a sum >= 0; a sum of zero, if
\* a cluster list has one, is the first entry of the list.
C12_SumsNonNegative ==
    InAttempt =>
        \A x \in DOMAIN tree : \A k \in 1..Len(tree[x]) :
            LET n == tree[x][k]
            IN  /\ n.kind = "Leaf" =>
                      /\ get_sum(n) \in 0..(module - 1)
                      /\ get_sum(n) = LeafResidue(n.idx, n.word1, n.word2)
                /\ n.kind = "Internal" => get_sum(n) >= 0
                /\ get_sum(n) = 0 => k = 1

\* C13: no operation of the tree solver's i128 arithmetic leaves the i128
\* range, for every B and M that are u64 values, M >= 1: neither a build with
\* overflow checks panics nor a build without them wraps around.
C13_NoOverflow == pc # "panic" /\ ~init_wrapped

====
